---- MODULE Spec2Model ----
(***************************************************************************)
(* Change propagation of the facto dashboard: the WebSocket broadcast hub  *)
(* (startServer) and the Meilisearch index synchronizer (syncMessages,     *)
(* watchAndSync), both consumers of MongoDB change streams.                *)
(*                                                                         *)
(* JavaScript values are tagged pairs <<type, n>> so that values of        *)
(* different JavaScript types stay distinct and comparable: an ObjectId    *)
(* and the string toString() makes of it are different values, and so are  *)
(* a Date and the ISO string toISOString() makes of it.                    *)
(***************************************************************************)
EXTENDS Integers, Sequences, FiniteSets, TLC

\* ------------------------------------------------------------------ bounds
MaxOps == 3       \* store mutations committed in one behaviour
MaxHubOps == 2    \* store mutations committed while the WebSocket server is observed
OpsPerSecond == 2 \* store mutations committed within one second of the clock
MaxBatch == 2     \* SYNC_BATCH_SIZE is at most MaxBatch
MaxRuns == 2      \* runs of the synchronizer process in one behaviour
MaxIterations == 4  \* iterations of the batch loop in one run
MaxSockets == 4   \* WebSockets one provider creates in one behaviour

\* ObjectIds are generated in increasing order: the document inserted by the
\* n-th mutation has ObjectId(n).
MsgIds == 1..MaxOps
\* The chats of the scenarios: 42 and 99.
ChatIds == {42, 99}
\* The WebSocket connections, numbered in the order they are accepted.
Sessions == {1, 2}

\* ------------------------------------------------------- JavaScript values
undefined == <<"undefined", 0>>
Num(n) == <<"number", n>>
Str(n) == <<"string", n>>
ObjectId(n) == <<"ObjectId", n>>
DateOf(t) == <<"Date", t>>
true == <<"boolean", 1>>
false == <<"boolean", 0>>

\* JavaScript truthiness, as `a && b`, `a || b` and `if (a)` test it.
Truthy(v) == v # undefined /\ v # false /\ v # Num(0)

\* a || b
JsOr(a, b) == IF Truthy(a) THEN a ELSE b

\* ObjectId.prototype.toString(): the hex string of the id.
toString(v) == IF v[1] = "ObjectId" THEN <<"string", v[2]>> ELSE v

\* x instanceof Date ? x.toISOString() : x
toISOString(v) == IF v[1] = "Date" THEN <<"isostring", v[2]>> ELSE v

\* ---------------------------------------------------------------- state
VARIABLES
  messages,          \* the messages collection: a set of documents, one per _id
  activated_chats,   \* the activated_chats collection
  committed,         \* number of store mutations committed so far
  \* --- WebSocket server (startServer)
  serverUp,          \* startServer has opened its two change streams
  clients,           \* the registry: the set of registered sessions
  readyState,        \* ws.readyState of each connection
  subscribedChats,   \* ClientInfo.subscribedChats of each connection
  changeStream,      \* events of the messages stream not yet handed to the handler
  activatedChatsChangeStream,  \* the same for the activated_chats stream
  counting,          \* activation handlers suspended in `await countDocuments`
  sent,              \* per connection, the frames ws.send was called with, in order
  stalled,           \* connections whose peer has stopped reading its socket
  bufferedAmount,    \* ws.bufferedAmount: frames queued for a peer that does not read them
  hubPc,             \* where the SIGINT handler of startServer is
  hubClosed,         \* what the server process has closed, in the order it was closed
  \* --- the dashboard in a viewer's browser (WebSocketProvider, MessagesPage)
  wsRef,             \* wsRef.current: the connection of the provider, 0 for null
  subscribersRef,    \* subscribersRef.current: the chats that have callbacks
  rcvd,              \* how many frames of its connection ws.onmessage has handled
  pageMessages,      \* `messages` of the open MessagesPage: the _id of its rows, in order
  sockets,           \* readyState of every WebSocket the provider created, in order of creation
  timers,            \* the pending reconnect timeouts, each named by the socket whose onclose set it
  reconnectTimeoutRef, \* reconnectTimeoutRef.current: the last timeout set (0: null)
  mounted,           \* the effect of WebSocketProvider is mounted
  isConnected,       \* the isConnected state of the provider
  \* --- synchronizer process (syncMessages / watchAndSync)
  pc,                \* where the synchronizer process is
  mode,              \* "watch", "full" or "full --watch" (process.argv)
  BATCH_SIZE,        \* parseInt(SYNC_BATCH_SIZE)
  totalCount, skip, processed,   \* locals of syncMessages
  batch,             \* the `messages` array the last find() returned
  syncStream,        \* events of watchAndSync's change stream not yet handled
  index,             \* the Meilisearch index: a set of documents
  runs,              \* runs of the synchronizer started so far
  batches,           \* addDocuments calls of the current backfill ("Batch indexed")
  indexedIn,         \* for each _id, how many batches of the current backfill held it
  quiet,             \* no store mutation was committed since the current backfill began
  indexAtStart,      \* the index as it was when the current backfill began
  reachable,         \* the Meilisearch server answers requests
  deleting,          \* DELETE requests between deleteOne and deleteMessageFromIndex
  inflight,          \* index requests of change handlers that Meilisearch has not taken yet
  watcher,           \* a second synchronizer process, started with `watch`, is running
  watcherStream      \* events of that process's change stream not yet handled

storeVars == <<messages, activated_chats, committed>>
deliveryVars == <<stalled, bufferedAmount>>
lifeVars == <<hubPc, hubClosed>>
providerVars == <<sockets, timers, reconnectTimeoutRef, mounted, isConnected>>
viewerVars == <<wsRef, subscribersRef, rcvd, pageMessages, providerVars>>
hubVars == <<serverUp, clients, readyState, subscribedChats, changeStream,
             activatedChatsChangeStream, counting, sent, deliveryVars, lifeVars,
             viewerVars>>
restVars == <<reachable, deleting>>
asyncVars == <<inflight, watcher, watcherStream>>
syncVars == <<pc, mode, BATCH_SIZE, totalCount, skip, processed, batch,
              syncStream, index, runs, batches, indexedIn, quiet, indexAtStart,
              restVars, asyncVars>>
vars == <<storeVars, hubVars, syncVars>>


\* -------------------------------------------------------------- the store
\* A document of the messages collection (interface MessageDocument). The
\* optional fields the producers leave out are undefined.
MessageDocument(n, c, t, txt, edited) ==
  [_id |-> ObjectId(n), message_id |-> Num(n), chat_id |-> Num(c),
   date |-> DateOf(t), from_user |-> Num(1), text |-> Str(txt),
   caption |-> undefined, logged_at |-> DateOf(t), was_edited |-> edited]

\* A document of the activated_chats collection (interface ActivatedChatDocument).
ActivatedChatDocument(a, c) ==
  [_id |-> ObjectId(a), chat_id |-> Num(c), chat_title |-> Str(c),
   chat_type |-> undefined, activated_at |-> DateOf(1)]

\* collection.find({_id}): the documents with that _id (none or one).
findById(coll, oid) == {d \in coll : d._id = oid}

\* A change stream document {operationType, documentKey, fullDocument?}. An
\* insert carries the inserted document; the post-image of an update is looked
\* up when the event is handed to its handler (fullDocument: 'updateLookup').
\* seq (the commit number) and chat (the chat the message belonged to when the
\* mutation was committed) are history for the properties: no handler reads them.
ChangeStreamDocument(op, oid, full, c) ==
  [operationType |-> op, documentKey |-> oid, fullDocument |-> full,
   seq |-> committed + 1, chat |-> c]

\* An open change stream queues the event; a stream that is not open misses it.
watch(stream, open, ev) == IF open THEN Append(stream, ev) ELSE stream

\* The server process has not closed resource r (a change stream, the
\* MongoClient, the WebSocketServer).
isOpen(r) == \A i \in DOMAIN hubClosed : hubClosed[i] # r

\* The mutations one behaviour commits: fewer while the WebSocket server, with
\* its connections, is observed.
opsBudget == IF serverUp THEN MaxHubOps ELSE MaxOps

\* The store commits one mutation of the messages collection.
CommitMessage(coll, ev) ==
  /\ committed < opsBudget
  /\ messages' = coll
  /\ committed' = committed + 1
  /\ changeStream' = watch(changeStream, serverUp /\ isOpen("changeStream"), ev)
  /\ syncStream' = watch(syncStream, pc = "watching", ev)
  /\ watcherStream' = watch(watcherStream, watcher, ev)
  /\ quiet' = FALSE
  /\ UNCHANGED <<activated_chats, serverUp, clients, readyState, subscribedChats,
                 activatedChatsChangeStream, counting, sent, deliveryVars, lifeVars>>
  /\ UNCHANGED <<pc, mode, BATCH_SIZE, totalCount, skip, processed, batch,
                 index, runs, batches, indexedIn, indexAtStart, reachable,
                 inflight, watcher, viewerVars>>

\* The second of the clock in which the next mutation is committed (Telegram
\* dates have a resolution of one second).
now == 1 + (committed \div OpsPerSecond)

\* A producer inserts a message.
insertOne(c) ==
  /\ LET doc == MessageDocument(committed + 1, c, now, committed + 1, undefined)
     IN CommitMessage(messages \cup {doc},
                      ChangeStreamDocument("insert", doc._id, {doc}, c))
  /\ UNCHANGED deleting

\* A producer edits a message: new text, was_edited set.
updateOne(n) ==
  \E old \in findById(messages, ObjectId(n)) :
    LET doc == [old EXCEPT !.text = Str(committed + 1), !.was_edited = true]
    IN /\ CommitMessage((messages \ {old}) \cup {doc},
                        ChangeStreamDocument("update", old._id, {}, old.chat_id[2]))
       /\ UNCHANGED deleting

\* DELETE /api/messages/[id] up to its second await: deleteOne({_id}) removed
\* the message; the request goes on to deleteMessageFromIndex.
deleteOne(n) ==
  \E old \in findById(messages, ObjectId(n)) :
    /\ CommitMessage(messages \ {old},
                     ChangeStreamDocument("delete", old._id, {}, old.chat_id[2]))
    /\ deleting' = deleting \cup {n}

\* The store commits one mutation of the activated_chats collection.
CommitActivation(coll, ev) ==
  /\ committed < opsBudget
  /\ activated_chats' = coll
  /\ committed' = committed + 1
  /\ activatedChatsChangeStream' =
       watch(activatedChatsChangeStream,
             serverUp /\ isOpen("activatedChatsChangeStream"), ev)
  /\ UNCHANGED <<messages, serverUp, clients, readyState, subscribedChats,
                 changeStream, counting, sent, deliveryVars, lifeVars, syncVars,
                 viewerVars>>

\* The bot activates a chat, edits its activation record, or deactivates it.
activateChat(c) ==
  /\ LET doc == ActivatedChatDocument(committed + 1, c)
     IN CommitActivation(activated_chats \cup {doc},
                         ChangeStreamDocument("insert", doc._id, {doc}, c))

updateActivation(a) ==
  \E old \in findById(activated_chats, ObjectId(a)) :
    LET doc == [old EXCEPT !.chat_type = Str(1)]
    IN CommitActivation((activated_chats \ {old}) \cup {doc},
                        ChangeStreamDocument("update", old._id, {}, old.chat_id[2]))

deactivateChat(a) ==
  \E old \in findById(activated_chats, ObjectId(a)) :
    CommitActivation(activated_chats \ {old},
                     ChangeStreamDocument("delete", old._id, {}, old.chat_id[2]))

\* The event as the handler receives it: the post-image of an update is the
\* document as it is in the collection when the event is delivered (null, the
\* empty set here, when it was deleted meanwhile).
delivered(coll, ev) ==
  IF ev.operationType = "update"
  THEN [ev EXCEPT !.fullDocument = findById(coll, ev.documentKey)]
  ELSE ev


\* The arrays find({}).sort({date: -1}) can return: every order of the
\* collection with the dates descending. MongoDB fixes no order among documents
\* of equal date, and two executions of the query need not agree on it.
sortByDateDesc(coll) ==
  {f \in [1..Cardinality(coll) -> coll] :
     /\ \A i \in DOMAIN f, j \in DOMAIN f : i # j => f[i] # f[j]
     /\ \A i \in DOMAIN f, j \in DOMAIN f : i < j => f[i].date[2] >= f[j].date[2]}

\* The set of the elements of an array.
elements(seq) == {seq[i] : i \in DOMAIN seq}

\* ------------------------------------------------- WebSocket server (hub)
\* wss.on('connection'): a new ClientInfo with an empty subscribedChats is
\* added to clients. Connections are numbered in the order they are accepted.
connection(s) ==
  /\ serverUp
  /\ readyState[s] = "CONNECTING"
  /\ \A r \in Sessions : r < s => readyState[r] # "CONNECTING"
  /\ readyState' = [readyState EXCEPT ![s] = "OPEN"]
  /\ clients' = clients \cup {s}
  /\ subscribedChats' = [subscribedChats EXCEPT ![s] = {}]
  /\ UNCHANGED <<storeVars, serverUp, changeStream, activatedChatsChangeStream,
                 counting, sent, deliveryVars, lifeVars, syncVars,
                 viewerVars>>

\* The inbound frames a client can send: a text that JSON.parse rejects, or an
\* object with a type and a chatId (possibly missing, possibly 0).
ControlFrames ==
  [wellFormed : {TRUE},
   type : {"subscribe", "unsubscribe"},
   chatId : {undefined, Num(0)} \cup {Num(c) : c \in ChatIds}]
  \cup {[wellFormed |-> FALSE, type |-> "subscribe", chatId |-> Num(1)],
        [wellFormed |-> TRUE, type |-> "ping", chatId |-> Num(1)]}

\* subscribe as an assignment: the set holds the named chat alone.
applyControl_replace(subs, data) ==
  IF ~data.wellFormed THEN subs
  ELSE IF data.type = "subscribe" /\ Truthy(data.chatId) THEN {data.chatId}
  ELSE IF data.type = "unsubscribe" /\ Truthy(data.chatId) THEN subs \ {data.chatId}
  ELSE subs

\* unsubscribe that keeps the last chat of the set.
applyControl_keepLast(subs, data) ==
  IF ~data.wellFormed THEN subs
  ELSE IF data.type = "subscribe" /\ Truthy(data.chatId) THEN subs \cup {data.chatId}
  ELSE IF data.type = "unsubscribe" /\ Truthy(data.chatId) /\ subs \ {data.chatId} # {}
  THEN subs \ {data.chatId}
  ELSE subs

\* The body of ws.on('message'): the subscribedChats after the frame.
applyControl(subs, data) ==
  IF ~data.wellFormed THEN subs
  ELSE IF data.type = "subscribe" /\ Truthy(data.chatId) THEN subs \cup {data.chatId}
  ELSE IF data.type = "unsubscribe" /\ Truthy(data.chatId) THEN subs \ {data.chatId}
  ELSE subs

\* ws.on('message')
onMessage(s, data) ==
  /\ s \in clients
  /\ readyState[s] = "OPEN"
  /\ subscribedChats' = [subscribedChats EXCEPT ![s] = applyControl(@, data)]
  /\ UNCHANGED <<storeVars, serverUp, clients, readyState, changeStream,
                 activatedChatsChangeStream, counting, sent, deliveryVars, lifeVars, syncVars,
                 viewerVars>>

\* The peer starts the closing handshake, or a write to the socket fails: the
\* library marks the connection CLOSING until the socket ends ('close' follows);
\* no handler of the server runs.
closing(s) ==
  /\ readyState[s] = "OPEN"
  /\ readyState' = [readyState EXCEPT ![s] = "CLOSING"]
  /\ UNCHANGED <<storeVars, serverUp, clients, subscribedChats, changeStream,
                 activatedChatsChangeStream, counting, sent, deliveryVars, lifeVars, syncVars,
                 viewerVars>>

\* ws.on('close')
onClose(s) ==
  /\ readyState[s] \in {"OPEN", "CLOSING"}
  /\ readyState' = [readyState EXCEPT ![s] = "CLOSED"]
  /\ clients' = clients \ {s}
  /\ UNCHANGED <<storeVars, serverUp, subscribedChats, changeStream,
                 activatedChatsChangeStream, counting, sent, deliveryVars, lifeVars, syncVars,
                 viewerVars>>

\* An 'error' handler that flips the registration instead of deleting it.
onError_toggle(s) ==
  /\ readyState[s] \in {"OPEN", "CLOSING"}
  /\ readyState' = [readyState EXCEPT ![s] = "CLOSING"]
  /\ clients' = IF s \in clients THEN clients \ {s} ELSE clients \cup {s}
  /\ UNCHANGED <<storeVars, serverUp, subscribedChats, changeStream,
                 activatedChatsChangeStream, counting, sent, deliveryVars, lifeVars,
                 syncVars,
                 viewerVars>>

\* ws.on('error'): the library marks the connection CLOSING and emits 'error';
\* 'close' follows.
onError(s) ==
  /\ readyState[s] \in {"OPEN", "CLOSING"}
  /\ readyState' = [readyState EXCEPT ![s] = "CLOSING"]
  /\ clients' = clients \ {s}
  /\ UNCHANGED <<storeVars, serverUp, subscribedChats, changeStream,
                 activatedChatsChangeStream, counting, sent, deliveryVars, lifeVars, syncVars,
                 viewerVars>>

\* The peer of an open connection stops reading: its socket takes no more
\* data. No event tells the server; send() keeps queueing.
stall(s) ==
  /\ s \in clients
  /\ readyState[s] = "OPEN"
  /\ s \notin stalled
  /\ stalled' = stalled \cup {s}
  /\ UNCHANGED <<storeVars, serverUp, clients, readyState, subscribedChats,
                 changeStream, activatedChatsChangeStream, counting, sent,
                 bufferedAmount, lifeVars, syncVars,
                 viewerVars>>

\* The payload of a frame without any field.
emptyPayload ==
  [id |-> undefined, _id |-> undefined, message_id |-> undefined,
   chat_id |-> undefined, date |-> undefined, from_user |-> undefined,
   text |-> undefined, caption |-> undefined, logged_at |-> undefined,
   was_edited |-> undefined]

\* {...change.fullDocument, _id: change.fullDocument?._id?.toString()}; a field
\* that is undefined is a key JSON.stringify leaves out.
spread(full) ==
  IF full = {} THEN emptyPayload
  ELSE LET d == CHOOSE x \in full : TRUE
       IN [emptyPayload EXCEPT !._id = toString(d._id),
             !.message_id = d.message_id, !.chat_id = d.chat_id, !.date = d.date,
             !.from_user = d.from_user, !.text = d.text, !.caption = d.caption,
             !.logged_at = d.logged_at, !.was_edited = d.was_edited]

\* payload of a delete: {id: documentKey._id.toString(), chat_id: undefined}
deletePayload(change) ==
  [emptyPayload EXCEPT !.id = toString(change.documentKey), !.chat_id = undefined]

\* The switch on change.operationType: messageType and payload.
wsMessage(change) ==
  CASE change.operationType = "insert" ->
         [type |-> "new_message", payload |-> spread(change.fullDocument)]
    [] change.operationType = "delete" ->
         [type |-> "delete_message", payload |-> deletePayload(change)]
    [] change.operationType = "update" ->
         [type |-> "update_message", payload |-> spread(change.fullDocument)]

\* The filter without the lookup in the set: any frame with a chat_id passes.
subscribed_anyChat(subs, payload) ==
  \/ Cardinality(subs) = 0
  \/ Truthy(payload.chat_id)

\* The filter without the empty-set case.
subscribed_noGlobal(subs, payload) ==
  Truthy(payload.chat_id) /\ payload.chat_id \in subs

\* The subscription filter of the broadcast loop.
subscribed(subs, payload) ==
  \/ Cardinality(subs) = 0
  \/ (Truthy(payload.chat_id) /\ payload.chat_id \in subs)

\* A loop that ends at the first registered client that is not OPEN
\* (clients are visited in the order they were registered).
recipients_untilClosed(payload) ==
  {s \in clients :
     /\ \A r \in clients : r <= s => readyState[r] = "OPEN"
     /\ subscribed(subscribedChats[s], payload)}

\* A loop without the readyState test.
recipients_registered(payload) ==
  {s \in clients : subscribed(subscribedChats[s], payload)}

\* The clients the broadcast loop of a message event sends to.
recipients(payload) ==
  {s \in clients : readyState[s] = "OPEN" /\ subscribed(subscribedChats[s], payload)}

\* client.ws.send(wsMessage): the frame follows the frames sent before it. seq
\* is the commit number of the event the frame reports (history, not on the wire).
send(out, frame, seq) ==
  Append(out, [type |-> frame.type, payload |-> frame.payload, seq |-> seq])

\* ws.bufferedAmount after the frame was sent to the connections `to`: what is
\* sent to a peer that does not read stays queued; send() takes every frame.
buffered(to) ==
  [s \in Sessions |->
     IF s \in to /\ s \in stalled THEN bufferedAmount[s] + 1 ELSE bufferedAmount[s]]

\* An async handler that awaits before its broadcast loop: any queued event
\* may be the next whose handler reaches the loop.
completes_async(stream) == 1..Len(stream)

\* The handler of the messages stream has no await: it runs to completion for
\* one event before the next event is handed to it, so the event whose handler
\* completes next is the first of the stream.
completes(stream) == IF stream = <<>> THEN {} ELSE {1}

\* The stream without its i-th event.
without(stream, i) == SubSeq(stream, 1, i - 1) \o SubSeq(stream, i + 1, Len(stream))

\* changeStream.on('change') of the messages stream.
onChange ==
  /\ \E i \in completes(changeStream) :
       LET change == delivered(messages, changeStream[i])
           frame == wsMessage(change)
           to == recipients(frame.payload)
       IN /\ sent' = [s \in Sessions |->
                        IF s \in to THEN send(sent[s], frame, change.seq) ELSE sent[s]]
          /\ bufferedAmount' = buffered(to)
          /\ changeStream' = without(changeStream, i)
  /\ UNCHANGED <<storeVars, serverUp, clients, readyState, subscribedChats,
                 activatedChatsChangeStream, counting, stalled, lifeVars, syncVars,
                 viewerVars>>

\* activatedChatsChangeStream.on('change') up to `await countDocuments`: only
\* an insert with its document goes on; every other event ends the handler.
onActivatedChange ==
  /\ activatedChatsChangeStream # <<>>
  /\ LET change == delivered(activated_chats, Head(activatedChatsChangeStream))
     IN counting' =
          IF change.operationType = "insert" /\ change.fullDocument # {}
          THEN counting \cup {change}
          ELSE counting
  /\ activatedChatsChangeStream' = Tail(activatedChatsChangeStream)
  /\ UNCHANGED <<storeVars, serverUp, clients, readyState, subscribedChats,
                 changeStream, sent, deliveryVars, lifeVars, syncVars,
                 viewerVars>>

\* groupData of a new_group frame.
groupData(doc, messageCount) ==
  [_id |-> toString(doc._id), chat_id |-> doc.chat_id, chat_title |-> doc.chat_title,
   chat_type |-> doc.chat_type, activated_at |-> doc.activated_at,
   message_count |-> Num(messageCount)]

\* The loop of the messages stream copied: only the global listeners.
groupRecipients_filtered ==
  {s \in clients : readyState[s] = "OPEN" /\ subscribedChats[s] = {}}

\* The clients the broadcast loop of a new_group frame sends to.
groupRecipients == {s \in clients : readyState[s] = "OPEN"}

\* The activation handler after countDocuments settled: the new_group frame
\* goes to every open client. When the MongoClient was closed meanwhile the
\* promise is rejected and the handler ends without a frame.
broadcastGroup(change) ==
  /\ change \in counting
  /\ LET doc == CHOOSE x \in change.fullDocument : TRUE
         messageCount == Cardinality({m \in messages : m.chat_id = doc.chat_id})
         frame == [type |-> "new_group", payload |-> groupData(doc, messageCount)]
         to == IF isOpen("mongoClient") THEN groupRecipients ELSE {}
     IN /\ sent' = [s \in Sessions |->
                      IF s \in to THEN send(sent[s], frame, change.seq) ELSE sent[s]]
        /\ bufferedAmount' = buffered(to)
  /\ counting' = counting \ {change}
  /\ UNCHANGED <<storeVars, serverUp, clients, readyState, subscribedChats,
                 changeStream, activatedChatsChangeStream, stalled, lifeVars,
                 syncVars,
                 viewerVars>>

\* hubClosed after close() of resource r: closing what is closed changes nothing.
close(r) == IF isOpen(r) THEN Append(hubClosed, r) ELSE hubClosed

\* changeStream.on('error') of the messages stream: the driver has closed the
\* stream (an error it could not resume from); the handler logs it.
onChangeStreamError ==
  /\ serverUp
  /\ isOpen("changeStream")
  /\ hubClosed' = close("changeStream")
  /\ changeStream' = <<>>
  /\ UNCHANGED <<storeVars, serverUp, clients, readyState, subscribedChats,
                 activatedChatsChangeStream, counting, sent, deliveryVars, hubPc,
                 syncVars,
                 viewerVars>>

\* activatedChatsChangeStream.on('error'): the same for the other stream.
onActivatedStreamError ==
  /\ serverUp
  /\ isOpen("activatedChatsChangeStream")
  /\ hubClosed' = close("activatedChatsChangeStream")
  /\ activatedChatsChangeStream' = <<>>
  /\ UNCHANGED <<storeVars, serverUp, clients, readyState, subscribedChats,
                 changeStream, counting, sent, deliveryVars, hubPc, syncVars,
                 viewerVars>>

\* process.on('SIGINT') of startServer up to its first await: changeStream.close().
hubSIGINT ==
  /\ serverUp
  /\ hubPc = "serving"
  /\ hubPc' = "closedChangeStream"
  /\ hubClosed' = close("changeStream")
  /\ changeStream' = <<>>
  /\ UNCHANGED <<storeVars, serverUp, clients, readyState, subscribedChats,
                 activatedChatsChangeStream, counting, sent, deliveryVars, syncVars,
                 viewerVars>>

\* ... await activatedChatsChangeStream.close()
closeActivatedChatsChangeStream ==
  /\ hubPc = "closedChangeStream"
  /\ hubPc' = "closedActivatedChatsChangeStream"
  /\ hubClosed' = close("activatedChatsChangeStream")
  /\ activatedChatsChangeStream' = <<>>
  /\ UNCHANGED <<storeVars, serverUp, clients, readyState, subscribedChats,
                 changeStream, counting, sent, deliveryVars, syncVars,
                 viewerVars>>

\* ... await mongoClient.close()
closeMongoClient ==
  /\ hubPc = "closedActivatedChatsChangeStream"
  /\ hubPc' = "closedMongoClient"
  /\ hubClosed' = close("mongoClient")
  /\ UNCHANGED <<storeVars, serverUp, clients, readyState, subscribedChats,
                 changeStream, activatedChatsChangeStream, counting, sent,
                 deliveryVars, syncVars,
                 viewerVars>>

\* ... wss.close(); process.exit(0): the server stops listening and the
\* process ends, its sockets with it.
closeServer ==
  /\ hubPc = "closedMongoClient"
  /\ hubPc' = "exited"
  /\ hubClosed' = close("wss")
  /\ serverUp' = FALSE
  /\ clients' = {}
  /\ readyState' = [s \in Sessions |->
                      IF readyState[s] = "CONNECTING" THEN "CONNECTING" ELSE "CLOSED"]
  /\ counting' = {}
  /\ UNCHANGED <<storeVars, subscribedChats, changeStream,
                 activatedChatsChangeStream, sent, deliveryVars, syncVars,
                 viewerVars>>

\* ------------------------------------------------------- specification: hub
InitStore ==
  /\ messages = {}
  /\ activated_chats = {}
  /\ committed = 0

InitSyncOff ==
  /\ pc = "off" /\ mode = "full" /\ BATCH_SIZE = 1
  /\ totalCount = 0 /\ skip = 0 /\ processed = 0 /\ batch = <<>>
  /\ syncStream = <<>> /\ index = {} /\ runs = 0 /\ batches = 0
  /\ indexedIn = [n \in MsgIds |-> 0] /\ quiet = TRUE /\ indexAtStart = {}
  /\ reachable = TRUE /\ deleting = {}
  /\ inflight = {} /\ watcher = FALSE /\ watcherStream = <<>>

\* No peer is stalled, nothing is buffered, nothing is closed.
InitServing ==
  /\ stalled = {}
  /\ bufferedAmount = [s \in Sessions |-> 0]
  /\ hubPc = "serving"
  /\ hubClosed = <<>>
  /\ wsRef = 0 /\ subscribersRef = {} /\ rcvd = 0 /\ pageMessages = <<>>
  /\ sockets = <<>> /\ timers = {} /\ reconnectTimeoutRef = 0
  /\ mounted = FALSE /\ isConnected = FALSE

\* startServer has connected and opened both change streams; no client yet.
InitHub ==
  /\ InitStore
  /\ InitSyncOff
  /\ serverUp = TRUE
  /\ clients = {}
  /\ readyState = [s \in Sessions |-> "CONNECTING"]
  /\ subscribedChats = [s \in Sessions |-> {}]
  /\ changeStream = <<>>
  /\ activatedChatsChangeStream = <<>>
  /\ counting = {}
  /\ sent = [s \in Sessions |-> <<>>]
  /\ InitServing

StoreNext ==
  \/ \E c \in ChatIds : insertOne(c)
  \/ \E n \in MsgIds : updateOne(n)
  \/ \E n \in MsgIds : deleteOne(n)

ActivationNext ==
  \/ \E c \in ChatIds : activateChat(c)
  \/ \E a \in MsgIds : updateActivation(a)
  \/ \E a \in MsgIds : deactivateChat(a)

SessionNext ==
  \/ \E s \in Sessions : connection(s)
  \/ \E s \in Sessions, data \in ControlFrames : onMessage(s, data)
  \/ \E s \in Sessions : closing(s)
  \/ \E s \in Sessions : onClose(s)
  \/ \E s \in Sessions : onError(s)

HubNext ==
  \/ SessionNext
  \/ onChange
  \/ onActivatedChange
  \/ \E change \in counting : broadcastGroup(change)

\* The server with both of its streams.
NextHub == StoreNext \/ ActivationNext \/ HubNext

SpecHub == InitHub /\ [][NextHub]_vars

\* The message feed alone: the activated_chats collection does not change.
NextFeed == StoreNext \/ SessionNext \/ onChange

SpecFeed == InitHub /\ [][NextFeed]_vars

\* The server through stream errors and shutdown; its clients connect and
\* disconnect and stay global listeners.
LifecycleNext ==
  \/ onChangeStreamError
  \/ onActivatedStreamError
  \/ hubSIGINT
  \/ closeActivatedChatsChangeStream
  \/ closeMongoClient
  \/ closeServer

NextLifecycle ==
  \/ StoreNext
  \/ ActivationNext
  \/ \E s \in Sessions : connection(s)
  \/ \E s \in Sessions : onClose(s)
  \/ onChange
  \/ onActivatedChange
  \/ \E change \in counting : broadcastGroup(change)
  \/ LifecycleNext

SpecLifecycle == InitHub /\ [][NextLifecycle]_vars

\* ------------------------------------------------ the viewer's dashboard
\* connect() of WebSocketProvider: without a connection, new WebSocket(url);
\* the server accepts it in wss.on('connection').
connect ==
  /\ wsRef = 0
  /\ serverUp
  /\ \E s \in Sessions :
       /\ readyState[s] = "CONNECTING"
       /\ \A r \in Sessions : r < s => readyState[r] # "CONNECTING"
       /\ wsRef' = s
  /\ rcvd' = 0
  /\ UNCHANGED <<storeVars, serverUp, clients, readyState, subscribedChats,
                 changeStream, activatedChatsChangeStream, counting, sent,
                 deliveryVars, lifeVars, subscribersRef, pageMessages,
                 providerVars, syncVars>>

\* The key of subscribersRef under which the global callbacks are registered.
GlobalKey == 0 - 1

\* The callback MessagesPage registered, applied to its rows: new_message puts
\* a row in front, delete_message filters the rows of payload.id out,
\* update_message replaces a row in place.
pageCallback(rows, frame) ==
  CASE frame.type = "new_message" -> <<frame.payload._id>> \o rows
    [] frame.type = "delete_message" ->
         SelectSeq(rows, LAMBDA id : id # frame.payload.id)
    [] OTHER -> rows

\* ws.onmessage without the return that ends the new_group branch.
invocations_fallThrough(frame, reg) ==
  (IF frame.payload.chat_id # undefined /\ frame.payload.chat_id = Num(reg[1])
   THEN 1 ELSE 0)
  + (IF reg[1] = GlobalKey THEN 1 ELSE 0)

\* How often ws.onmessage calls the callback registered as reg = <<key, callback>>
\* for a frame. A new_group frame goes to the callbacks of key -1 and the
\* handler returns. For every other frame chatId is payload.chat_id; when it
\* is not undefined the callbacks of subscribersRef.get(chatId) are called, and
\* then the callbacks of subscribersRef.get(-1).
invocations(frame, reg) ==
  IF frame.type = "new_group"
  THEN IF reg[1] = GlobalKey THEN 1 ELSE 0
  ELSE (IF frame.payload.chat_id # undefined /\ frame.payload.chat_id = Num(reg[1])
        THEN 1 ELSE 0)
       + (IF reg[1] = GlobalKey THEN 1 ELSE 0)

\* The rows after the page's callback was called k times with the frame.
called(rows, frame, k) ==
  IF k = 0 THEN rows
  ELSE IF k = 1 THEN pageCallback(rows, frame)
  ELSE pageCallback(pageCallback(rows, frame), frame)

\* The registrations of the MessagesPage callback (at most one: one page is open).
pageRegs == {reg \in subscribersRef : reg[2] = "page"}

\* ws.onmessage of the provider, for the next frame of its connection.
onmessage ==
  /\ wsRef # 0
  /\ rcvd < Len(sent[wsRef])
  /\ rcvd' = rcvd + 1
  /\ LET frame == sent[wsRef][rcvd + 1]
     IN pageMessages' =
          IF pageRegs = {} THEN pageMessages
          ELSE called(pageMessages, frame,
                      invocations(frame, CHOOSE reg \in pageRegs : TRUE))
  /\ UNCHANGED <<storeVars, serverUp, clients, readyState, subscribedChats,
                 changeStream, activatedChatsChangeStream, counting, sent,
                 deliveryVars, lifeVars, wsRef, subscribersRef, providerVars,
                 syncVars>>

\* ws.onclose of the provider: wsRef.current = null; connect() runs again
\* after 5 seconds.
onclose ==
  /\ wsRef # 0
  /\ readyState[wsRef] = "CLOSED"
  /\ wsRef' = 0
  /\ UNCHANGED <<storeVars, serverUp, clients, readyState, subscribedChats,
                 changeStream, activatedChatsChangeStream, counting, sent,
                 deliveryVars, lifeVars, subscribersRef, rcvd, pageMessages,
                 providerVars, syncVars>>

\* MessagesPage of chat c is mounted: subscribe(chatId, callback) registers
\* the callback in subscribersRef (nothing is sent to the server), and
\* fetchMessages(1) loads the rows of the chat from GET /api/messages, the
\* newest first.
openMessagesPage(c) ==
  /\ pageRegs = {}
  /\ subscribersRef' = subscribersRef \cup {<<c, "page">>}
  /\ \E sorted \in sortByDateDesc({m \in messages : m.chat_id = Num(c)}) :
       pageMessages' = [i \in DOMAIN sorted |-> toString(sorted[i]._id)]
  /\ UNCHANGED <<storeVars, serverUp, clients, readyState, subscribedChats,
                 changeStream, activatedChatsChangeStream, counting, sent,
                 deliveryVars, lifeVars, wsRef, rcvd, providerVars, syncVars>>

\* The page is unmounted: the effect's cleanup calls unsubscribe().
closeMessagesPage ==
  /\ pageRegs # {}
  /\ subscribersRef' = subscribersRef \ pageRegs
  /\ pageMessages' = <<>>
  /\ UNCHANGED <<storeVars, serverUp, clients, readyState, subscribedChats,
                 changeStream, activatedChatsChangeStream, counting, sent,
                 deliveryVars, lifeVars, wsRef, rcvd, providerVars, syncVars>>

\* handleDelete of the page after its DELETE request was answered ok (the
\* route's deleteOne has removed message n): the rows of n are filtered out.
handleDelete(n) ==
  /\ pageRegs # {}
  /\ findById(messages, ObjectId(n)) = {}
  /\ \E i \in DOMAIN pageMessages : pageMessages[i] = toString(ObjectId(n))
  /\ pageMessages' = SelectSeq(pageMessages, LAMBDA id : id # toString(ObjectId(n)))
  /\ UNCHANGED <<storeVars, serverUp, clients, readyState, subscribedChats,
                 changeStream, activatedChatsChangeStream, counting, sent,
                 deliveryVars, lifeVars, wsRef, subscribersRef, rcvd,
                 providerVars, syncVars>>

\* The groups page is mounted: subscribe(-1, callback) registers its callback
\* under the global key.
openGroupsPage ==
  /\ <<GlobalKey, "groups">> \notin subscribersRef
  /\ subscribersRef' = subscribersRef \cup {<<GlobalKey, "groups">>}
  /\ UNCHANGED <<storeVars, serverUp, clients, readyState, subscribedChats,
                 changeStream, activatedChatsChangeStream, counting, sent,
                 deliveryVars, lifeVars, wsRef, rcvd, pageMessages,
                 providerVars, syncVars>>

\* The groups page is unmounted: unsubscribe().
closeGroupsPage ==
  /\ <<GlobalKey, "groups">> \in subscribersRef
  /\ subscribersRef' = subscribersRef \ {<<GlobalKey, "groups">>}
  /\ UNCHANGED <<storeVars, serverUp, clients, readyState, subscribedChats,
                 changeStream, activatedChatsChangeStream, counting, sent,
                 deliveryVars, lifeVars, wsRef, rcvd, pageMessages,
                 providerVars, syncVars>>

ViewerNext ==
  \/ connect
  \/ onmessage
  \/ onclose
  \/ \E c \in ChatIds : openMessagesPage(c)
  \/ closeMessagesPage
  \/ \E n \in MsgIds : handleDelete(n)

\* One viewer and the server: the server accepts the connection the provider
\* has created, and a connection can drop.
NextViewer ==
  \/ StoreNext
  \/ \E s \in Sessions : wsRef = s /\ connection(s)
  \/ \E s \in Sessions : onClose(s)
  \/ onChange
  \/ ViewerNext

SpecViewer == InitHub /\ [][NextViewer]_vars

\* ------------------------------------- the provider's connection lifecycle
\* Here wsRef names one of the provider's own WebSockets (its place in
\* `sockets`), and the server is what opens and closes them.
\*
\* The body of connect(): nothing when wsRef.current is OPEN; otherwise
\* new WebSocket(url), its handlers attached, wsRef.current = ws.
connectCall ==
  IF wsRef # 0 /\ sockets[wsRef] = "OPEN"
  THEN UNCHANGED <<sockets, wsRef>>
  ELSE /\ Len(sockets) < MaxSockets
       /\ sockets' = Append(sockets, "CONNECTING")
       /\ wsRef' = Len(sockets) + 1

\* The effect of the provider runs: connect(). (React runs it at mount, and in
\* StrictMode again, on the same refs, after a first cleanup.)
useEffectMount ==
  /\ ~mounted
  /\ mounted' = TRUE
  /\ connectCall
  /\ UNCHANGED <<storeVars, serverUp, clients, readyState, subscribedChats,
                 changeStream, activatedChatsChangeStream, counting, sent,
                 deliveryVars, lifeVars, subscribersRef, rcvd, pageMessages,
                 timers, reconnectTimeoutRef, isConnected, syncVars>>

\* The cleanup of the effect: clearTimeout(reconnectTimeoutRef.current) when
\* it is set, wsRef.current.close() when it is set. close() makes a socket
\* that is connecting or open CLOSING; its close event comes later.
useEffectCleanup ==
  /\ mounted
  /\ mounted' = FALSE
  /\ timers' = timers \ {reconnectTimeoutRef}
  /\ sockets' = IF wsRef # 0 /\ sockets[wsRef] \in {"CONNECTING", "OPEN"}
                THEN [sockets EXCEPT ![wsRef] = "CLOSING"]
                ELSE sockets
  /\ UNCHANGED <<storeVars, serverUp, clients, readyState, subscribedChats,
                 changeStream, activatedChatsChangeStream, counting, sent,
                 deliveryVars, lifeVars, wsRef, subscribersRef, rcvd,
                 pageMessages, reconnectTimeoutRef, isConnected, syncVars>>

\* ws.onopen of socket w: setIsConnected(true).
wsOnopen(w) ==
  /\ w \in DOMAIN sockets
  /\ sockets[w] = "CONNECTING"
  /\ sockets' = [sockets EXCEPT ![w] = "OPEN"]
  /\ isConnected' = TRUE
  /\ UNCHANGED <<storeVars, serverUp, clients, readyState, subscribedChats,
                 changeStream, activatedChatsChangeStream, counting, sent,
                 deliveryVars, lifeVars, wsRef, subscribersRef, rcvd,
                 pageMessages, timers, reconnectTimeoutRef, mounted, syncVars>>

\* An onclose that sets no timeout.
wsOnclose_noTimeout(w) ==
  /\ w \in DOMAIN sockets
  /\ sockets[w] \in {"CONNECTING", "OPEN", "CLOSING"}
  /\ sockets' = [sockets EXCEPT ![w] = "CLOSED"]
  /\ isConnected' = FALSE
  /\ wsRef' = 0
  /\ UNCHANGED <<storeVars, serverUp, clients, readyState, subscribedChats,
                 changeStream, activatedChatsChangeStream, counting, sent,
                 deliveryVars, lifeVars, subscribersRef, rcvd, pageMessages,
                 timers, reconnectTimeoutRef, mounted, syncVars>>

\* The close event of socket w (the connection failed, dropped, or close()
\* was called) and its ws.onclose: setIsConnected(false), wsRef.current =
\* null, reconnectTimeoutRef.current = setTimeout(connect, 5000).
wsOnclose(w) ==
  /\ w \in DOMAIN sockets
  /\ sockets[w] \in {"CONNECTING", "OPEN", "CLOSING"}
  /\ sockets' = [sockets EXCEPT ![w] = "CLOSED"]
  /\ isConnected' = FALSE
  /\ wsRef' = 0
  /\ timers' = timers \cup {w}
  /\ reconnectTimeoutRef' = w
  /\ UNCHANGED <<storeVars, serverUp, clients, readyState, subscribedChats,
                 changeStream, activatedChatsChangeStream, counting, sent,
                 deliveryVars, lifeVars, subscribersRef, rcvd, pageMessages,
                 mounted, syncVars>>

\* The timeout set by the onclose of socket t fires: connect().
reconnectTimeout(t) ==
  /\ t \in timers
  /\ timers' = timers \ {t}
  /\ connectCall
  /\ UNCHANGED <<storeVars, serverUp, clients, readyState, subscribedChats,
                 changeStream, activatedChatsChangeStream, counting, sent,
                 deliveryVars, lifeVars, subscribersRef, rcvd, pageMessages,
                 reconnectTimeoutRef, mounted, isConnected, syncVars>>

NextProvider ==
  \/ useEffectMount
  \/ useEffectCleanup
  \/ \E w \in 1..MaxSockets : wsOnopen(w)
  \/ \E w \in 1..MaxSockets : wsOnclose(w)
  \/ \E t \in 1..MaxSockets : reconnectTimeout(t)

SpecProvider == InitHub /\ [][NextProvider]_vars

\* A timeout that is set fires (after 5 seconds) unless it is cleared.
SpecProviderLive ==
  SpecProvider /\ WF_vars(\E t \in 1..MaxSockets : reconnectTimeout(t))

\* The routing of the provider: frames of both streams, of every chat id the
\* store can hold (the number -1 among them), and both pages.
NextRouting ==
  \/ \E c \in ChatIds \cup {GlobalKey} : insertOne(c)
  \/ \E n \in MsgIds : updateOne(n)
  \/ \E n \in MsgIds : deleteOne(n)
  \/ \E c \in ChatIds : activateChat(c)
  \/ \E s \in Sessions : wsRef = s /\ connection(s)
  \/ onChange
  \/ onActivatedChange
  \/ \E change \in counting : broadcastGroup(change)
  \/ connect
  \/ onmessage
  \/ \E c \in ChatIds \cup {GlobalKey} : openMessagesPage(c)
  \/ closeMessagesPage
  \/ openGroupsPage
  \/ closeGroupsPage

SpecRouting == InitHub /\ [][NextRouting]_vars

\* The message feed with peers that stop reading.
NextDelivery == NextFeed \/ \E s \in Sessions : stall(s)

SpecDelivery == InitHub /\ [][NextDelivery]_vars


\* ------------------------------------------------------- the synchronizer
\* The Meilisearch document syncMessages makes of a message (documents = messages.map).
documents_noDefault(msg) ==
  [id |-> toString(msg._id), _id |-> toString(msg._id),
   message_id |-> msg.message_id, chat_id |-> msg.chat_id,
   date |-> toISOString(msg.date), from_user |-> msg.from_user,
   text |-> msg.text, caption |-> msg.caption,
   logged_at |-> toISOString(msg.logged_at), was_edited |-> msg.was_edited]

documents(msg) ==
  [id |-> toString(msg._id), _id |-> toString(msg._id),
   message_id |-> msg.message_id, chat_id |-> msg.chat_id,
   date |-> toISOString(msg.date), from_user |-> msg.from_user,
   text |-> msg.text, caption |-> msg.caption,
   logged_at |-> toISOString(msg.logged_at), was_edited |-> JsOr(msg.was_edited, false)]

\* A handler transform that passes the dates as they are.
doc_rawDates(fullDocument) ==
  [id |-> toString(fullDocument._id), _id |-> toString(fullDocument._id),
   message_id |-> fullDocument.message_id, chat_id |-> fullDocument.chat_id,
   date |-> fullDocument.date, from_user |-> fullDocument.from_user,
   text |-> fullDocument.text, caption |-> fullDocument.caption,
   logged_at |-> fullDocument.logged_at,
   was_edited |-> JsOr(fullDocument.was_edited, false)]

\* The Meilisearch document the change handler of watchAndSync makes of
\* change.fullDocument.
doc(fullDocument) ==
  [id |-> toString(fullDocument._id), _id |-> toString(fullDocument._id),
   message_id |-> fullDocument.message_id, chat_id |-> fullDocument.chat_id,
   date |-> toISOString(fullDocument.date), from_user |-> fullDocument.from_user,
   text |-> fullDocument.text, caption |-> fullDocument.caption,
   logged_at |-> toISOString(fullDocument.logged_at),
   was_edited |-> JsOr(fullDocument.was_edited, false)]

\* index.addDocuments(docs, {primaryKey: 'id'}) without the replacement.
addDocuments_keepOld(idx, docs) == idx \cup docs

\* index.addDocuments(docs, {primaryKey: 'id'}): add or replace by primary key.
\* Meilisearch applies the tasks of one index in the order they were enqueued;
\* with one writer the index after the tasks is the one computed here.
addDocuments(idx, docs) ==
  {d \in idx : \A e \in docs : e.id # d.id} \cup docs

\* A delete that empties the index when it finds no document with the id.
deleteDocument_orAll(idx, id) ==
  IF \E d \in idx : d.id = id THEN {d \in idx : d.id # id} ELSE {}

\* index.deleteDocument(id): no document with that primary key is left. An id
\* the index does not hold is not an error: the task succeeds.
deleteDocument(idx, id) == {d \in idx : d.id # id}

\* The ObjectId passed as it is.
deletedId_raw(change) == change.documentKey

\* deletedId = change.documentKey._id.toString()
deletedId(change) == toString(change.documentKey)

\* .skip(n).limit(k).toArray() of a sorted result. To MongoDB limit(0) is no
\* limit: the cursor returns every document after the skipped ones.
skipLimit(sorted, n, k) ==
  IF n >= Len(sorted) THEN <<>>
  ELSE SubSeq(sorted, n + 1,
              IF k # 0 /\ n + k <= Len(sorted) THEN n + k ELSE Len(sorted))

\* The process is started: `watch` runs watchAndSync, everything else runs
\* syncMessages first. The index is the one earlier runs left.
start(m, b) ==
  /\ pc = "off"
  /\ runs < MaxRuns
  /\ runs' = runs + 1
  /\ mode' = m
  /\ BATCH_SIZE' = b
  /\ pc' = IF m = "watch" THEN "watching" ELSE "count"
  /\ syncStream' = <<>>
  /\ UNCHANGED <<storeVars, hubVars, totalCount, skip, processed, batch, index,
                 batches, indexedIn, quiet, indexAtStart,
                 restVars, asyncVars>>

\* syncMessages up to the batch loop: countDocuments, the early return of an
\* empty collection, processed = 0, skip = 0.
countDocuments ==
  /\ pc = "count"
  /\ totalCount' = Cardinality(messages)
  /\ processed' = 0
  /\ skip' = 0
  /\ batch' = <<>>
  /\ pc' = IF Cardinality(messages) = 0 THEN "end" ELSE "loop"
  /\ batches' = 0
  /\ indexedIn' = [n \in MsgIds |-> 0]
  /\ quiet' = TRUE
  /\ indexAtStart' = index
  /\ UNCHANGED <<storeVars, hubVars, mode, BATCH_SIZE, syncStream, index, runs,
                 restVars, asyncVars>>

\* The head of the loop: while (skip < totalCount) { messages = await find...;
\* if (messages.length === 0) break; ...
find ==
  /\ pc = "loop"
  /\ IF skip < totalCount
     THEN \E sorted \in sortByDateDesc(messages) :
            /\ batch' = skipLimit(sorted, skip, BATCH_SIZE)
            /\ pc' = IF batch' = <<>> THEN "end" ELSE "add"
     ELSE batch' = <<>> /\ pc' = "end"
  /\ UNCHANGED <<storeVars, hubVars, mode, BATCH_SIZE, totalCount, skip, processed,
                 syncStream, index, runs, batches, indexedIn, quiet, indexAtStart,
                 restVars, asyncVars>>

\* The rest of the loop body: transform, addDocuments, processed and skip advance.
addBatch ==
  /\ pc = "add"
  /\ reachable
  /\ batches < MaxIterations
  /\ index' = addDocuments(index, {documents(msg) : msg \in elements(batch)})
  /\ processed' = processed + Len(batch)
  /\ skip' = skip + BATCH_SIZE
  /\ batches' = batches + 1
  /\ indexedIn' = [n \in MsgIds |->
                     IF \E msg \in elements(batch) : msg._id = ObjectId(n)
                     THEN indexedIn[n] + 1 ELSE indexedIn[n]]
  /\ pc' = "loop"
  /\ UNCHANGED <<storeVars, hubVars, mode, BATCH_SIZE, totalCount, batch,
                 syncStream, runs, quiet, indexAtStart,
                 restVars, asyncVars>>

\* syncMessages returned: with --watch the process goes on in watchAndSync,
\* whose change stream starts now; without it the process exits.
afterSync ==
  /\ pc = "end"
  /\ pc' = IF mode = "full --watch" THEN "watching" ELSE "off"
  /\ syncStream' = <<>>
  /\ UNCHANGED <<storeVars, hubVars, mode, BATCH_SIZE, totalCount, skip, processed,
                 batch, index, runs, batches, indexedIn, quiet, indexAtStart,
                 restVars, asyncVars>>

\* The index after the change handler of watchAndSync handled `change`.
applyChange(idx, change) ==
  CASE change.operationType \in {"insert", "update"} ->
         IF change.fullDocument # {}
         THEN addDocuments(idx, {doc(d) : d \in change.fullDocument})
         ELSE idx
    [] change.operationType = "delete" -> deleteDocument(idx, deletedId(change))

\* The handler calls the index for this event: every event but an insert or
\* update without a document.
writes(change) ==
  change.operationType = "delete" \/ change.fullDocument # {}

\* changeStream.on('change') of watchAndSync, no call of the index failing and
\* the request of an event reaching the index before the next event is handled.
onSyncChange ==
  /\ pc = "watching"
  /\ syncStream # <<>>
  /\ writes(delivered(messages, Head(syncStream))) => reachable
  /\ index' = applyChange(index, delivered(messages, Head(syncStream)))
  /\ syncStream' = Tail(syncStream)
  /\ UNCHANGED <<storeVars, hubVars, pc, mode, BATCH_SIZE, totalCount, skip,
                 processed, batch, runs, batches, indexedIn, quiet, indexAtStart,
                 restVars, asyncVars>>

\* The Meilisearch server goes away and comes back.
outage ==
  /\ reachable
  /\ reachable' = FALSE
  /\ UNCHANGED <<storeVars, hubVars, pc, mode, BATCH_SIZE, totalCount, skip,
                 processed, batch, syncStream, index, runs, batches, indexedIn,
                 quiet, indexAtStart, deleting, asyncVars>>

recover ==
  /\ ~reachable
  /\ reachable' = TRUE
  /\ UNCHANGED <<storeVars, hubVars, pc, mode, BATCH_SIZE, totalCount, skip,
                 processed, batch, syncStream, index, runs, batches, indexedIn,
                 quiet, indexAtStart, deleting, asyncVars>>

\* The loop body throws: the transform or index.addDocuments fails (the server
\* rejects the request, or cannot be reached). syncMessages rejects and the
\* .catch of the entry point logs 'Sync failed' and calls process.exit(1).
addBatchFails ==
  /\ pc = "add"
  /\ pc' = "off"
  /\ UNCHANGED <<storeVars, hubVars, mode, BATCH_SIZE, totalCount, skip, processed,
                 batch, syncStream, index, runs, batches, indexedIn, quiet,
                 indexAtStart, restVars, asyncVars>>

\* changeStream.on('change') of watchAndSync when the call of the index throws:
\* the catch logs 'Failed to sync change' and the handler ends.
onSyncChangeFails ==
  /\ pc = "watching"
  /\ syncStream # <<>>
  /\ writes(delivered(messages, Head(syncStream)))
  /\ syncStream' = Tail(syncStream)
  /\ UNCHANGED <<storeVars, hubVars, pc, mode, BATCH_SIZE, totalCount, skip,
                 processed, batch, index, runs, batches, indexedIn, quiet,
                 indexAtStart, restVars, asyncVars>>

\* changeStream.on('error') of watchAndSync: the driver has closed the stream
\* (an error it could not resume from); the handler logs it. The process stays
\* up, without a stream.
onSyncStreamError ==
  /\ pc = "watching"
  /\ pc' = "failed"
  /\ syncStream' = <<>>
  /\ UNCHANGED <<storeVars, hubVars, mode, BATCH_SIZE, totalCount, skip, processed,
                 batch, index, runs, batches, indexedIn, quiet, indexAtStart,
                 restVars, asyncVars>>

\* process.on('SIGINT') of watchAndSync: the stream is closed, the process exits;
\* the events not yet handled are gone.
SIGINT ==
  /\ pc \in {"watching", "failed"}
  /\ pc' = "off"
  /\ syncStream' = <<>>
  /\ UNCHANGED <<storeVars, hubVars, mode, BATCH_SIZE, totalCount, skip, processed,
                 batch, index, runs, batches, indexedIn, quiet, indexAtStart,
                 restVars, asyncVars>>

\* An index delete that clears the index.
deleteMessageFromIndex_all(n) ==
  /\ n \in deleting
  /\ deleting' = deleting \ {n}
  /\ index' = IF reachable THEN {} ELSE index
  /\ quiet' = FALSE
  /\ UNCHANGED <<storeVars, hubVars, pc, mode, BATCH_SIZE, totalCount, skip,
                 processed, batch, syncStream, runs, batches, indexedIn,
                 indexAtStart, reachable, asyncVars>>

\* DELETE /api/messages/[id] after deleteOne: deleteMessageFromIndex(id) in a
\* try/catch; a failure is logged and the request still answers success.
deleteMessageFromIndex(n) ==
  /\ n \in deleting
  /\ deleting' = deleting \ {n}
  /\ index' = IF reachable THEN deleteDocument(index, toString(ObjectId(n))) ELSE index
  /\ quiet' = FALSE
  /\ UNCHANGED <<storeVars, hubVars, pc, mode, BATCH_SIZE, totalCount, skip,
                 processed, batch, syncStream, runs, batches, indexedIn,
                 indexAtStart, reachable,
                 asyncVars>>

\* ---------------------------------------------- specification: synchronizer
\* No process runs yet; the store and the index are empty, the server is not
\* part of this specification.
InitSync ==
  /\ InitStore
  /\ InitSyncOff
  /\ serverUp = FALSE
  /\ clients = {}
  /\ readyState = [s \in Sessions |-> "CONNECTING"]
  /\ subscribedChats = [s \in Sessions |-> {}]
  /\ changeStream = <<>>
  /\ activatedChatsChangeStream = <<>>
  /\ counting = {}
  /\ sent = [s \in Sessions |-> <<>>]
  /\ InitServing

SyncNext ==
  \/ \E m \in {"watch", "full", "full --watch"}, b \in 1..MaxBatch : start(m, b)
  \/ countDocuments
  \/ find
  \/ addBatch
  \/ afterSync
  \/ onSyncChange
  \/ SIGINT

RestNext == \E n \in MsgIds : deleteMessageFromIndex(n)

NextSync == StoreNext \/ RestNext \/ SyncNext

SpecSync == InitSync /\ [][NextSync]_vars

\* changeStream.on('change') of watchAndSync as the stream calls it: the
\* handler is async and the stream does not await it. It runs up to
\* `await index.addDocuments(...)` or `await index.deleteDocument(...)`, which
\* leaves the request of this event on its way to the index, and the stream
\* goes on to the next event.
onSyncChangeCall ==
  /\ pc = "watching"
  /\ syncStream # <<>>
  /\ LET change == delivered(messages, Head(syncStream))
     IN inflight' = IF writes(change) THEN inflight \cup {change} ELSE inflight
  /\ syncStream' = Tail(syncStream)
  /\ UNCHANGED <<storeVars, hubVars, pc, mode, BATCH_SIZE, totalCount, skip,
                 processed, batch, index, runs, batches, indexedIn, quiet,
                 indexAtStart, restVars, watcher, watcherStream>>

\* A request on its way reaches the index and takes effect there; the awaiting
\* handler resumes and logs. Requests of different handlers are independent
\* HTTP requests: they reach the index in any order.
indexRequest(change) ==
  /\ change \in inflight
  /\ reachable
  /\ index' = applyChange(index, change)
  /\ inflight' = inflight \ {change}
  /\ UNCHANGED <<storeVars, hubVars, pc, mode, BATCH_SIZE, totalCount, skip,
                 processed, batch, syncStream, runs, batches, indexedIn, quiet,
                 indexAtStart, restVars, watcher, watcherStream>>

\* The `watch` mode with its handlers running concurrently.
NextSyncAsync ==
  \/ StoreNext
  \/ \E b \in 1..MaxBatch : start("watch", b)
  \/ onSyncChangeCall
  \/ \E change \in inflight : indexRequest(change)
  \/ SIGINT

SpecSyncAsync == InitSync /\ [][NextSyncAsync]_vars

\* The records a producer can have left in the messages collection: dates
\* stored as Date or as string, the optional fields present or not, was_edited
\* missing or false.
StoredRecords ==
  {[_id |-> ObjectId(1), message_id |-> Num(1), chat_id |-> Num(42),
    date |-> d, from_user |-> Num(1), text |-> Str(1), caption |-> cap,
    logged_at |-> l, was_edited |-> e] :
     d \in {DateOf(1), Str(1)}, cap \in {undefined, Str(1)},
     l \in {DateOf(1), Str(1)}, e \in {undefined, false}}

\* The synchronizer started on a store that holds one such record.
InitTransform ==
  /\ messages \in {{r} : r \in StoredRecords}
  /\ activated_chats = {}
  /\ committed = 1
  /\ InitSyncOff
  /\ serverUp = FALSE
  /\ clients = {}
  /\ readyState = [s \in Sessions |-> "CONNECTING"]
  /\ subscribedChats = [s \in Sessions |-> {}]
  /\ changeStream = <<>>
  /\ activatedChatsChangeStream = <<>>
  /\ counting = {}
  /\ sent = [s \in Sessions |-> <<>>]
  /\ InitServing

\* The record is edited; both transforms are applied to it, by the backfill
\* and by the change handler.
NextTransform ==
  \/ \E n \in MsgIds : updateOne(n)
  \/ SyncNext

SpecTransform == InitTransform /\ [][NextTransform]_vars

\* The backfill (`full`) with every SYNC_BATCH_SIZE parseInt makes a number
\* of, from 0 up.
NextBackfill ==
  \/ StoreNext
  \/ \E b \in 0..MaxBatch : start("full", b)
  \/ countDocuments
  \/ find
  \/ addBatch
  \/ afterSync

SpecBackfill == InitSync /\ [][NextBackfill]_vars

\* A second process is started in `watch` mode and stays: its change stream
\* starts at the moment of the watch() call.
startWatcher ==
  /\ ~watcher
  /\ watcher' = TRUE
  /\ watcherStream' = <<>>
  /\ UNCHANGED <<storeVars, hubVars, pc, mode, BATCH_SIZE, totalCount, skip,
                 processed, batch, syncStream, index, runs, batches, indexedIn,
                 quiet, indexAtStart, restVars, inflight>>

\* changeStream.on('change') of that process, on the same index.
onWatcherChange ==
  /\ watcher
  /\ watcherStream # <<>>
  /\ writes(delivered(messages, Head(watcherStream))) => reachable
  /\ index' = applyChange(index, delivered(messages, Head(watcherStream)))
  /\ watcherStream' = Tail(watcherStream)
  /\ UNCHANGED <<storeVars, hubVars, pc, mode, BATCH_SIZE, totalCount, skip,
                 processed, batch, syncStream, runs, batches, indexedIn, quiet,
                 indexAtStart, restVars, inflight, watcher>>

\* A backfill (`full`) run by one process while another one watches.
NextOverlap ==
  \/ StoreNext
  \/ startWatcher
  \/ onWatcherChange
  \/ \E b \in 1..MaxBatch : start("full", b)
  \/ countDocuments
  \/ find
  \/ addBatch
  \/ afterSync

SpecOverlap == InitSync /\ [][NextOverlap]_vars

\* The synchronizer with failures of the index and of the change stream.
FaultNext ==
  \/ outage
  \/ recover
  \/ addBatchFails
  \/ onSyncChangeFails
  \/ onSyncStreamError

NextSyncFault == NextSync \/ FaultNext

SpecSyncFault == InitSync /\ [][NextSyncFault]_vars

\* The steps the synchronizer process takes by itself: it does not stop
\* between two of them. Signals, restarts and failures are not among them.
SyncProgress ==
  \/ countDocuments
  \/ find
  \/ addBatch
  \/ afterSync
  \/ onSyncChange

SpecSyncLive == SpecSyncFault /\ WF_vars(SyncProgress)

\* ------------------------------------------------------- claims: the hub
\* A step of the handler of the messages stream, which takes the first event.
DispatchStep == changeStream # <<>> /\ changeStream' = Tail(changeStream)

\* The frame reports a mutation of the messages collection.
IsMessageFrame(f) == f.type \in {"new_message", "update_message", "delete_message"}

\* Connection s was sent nothing in this step.
NothingSent(s) == sent'[s] = sent[s]

\* Connection s was sent exactly one frame in this step, for the event numbered seq.
OneSent(s, seq) ==
  /\ Len(sent'[s]) = Len(sent[s]) + 1
  /\ SubSeq(sent'[s], 1, Len(sent[s])) = sent[s]
  /\ sent'[s][Len(sent'[s])].seq = seq

\* C1: whenever the handler dispatches an insert, update or delete of a message
\* of chat C, every registered open connection that has C in subscribedChats is
\* sent the frame of that event.
C1_SubscriberReceivesEveryMessageEvent ==
  [][DispatchStep =>
       \A s \in clients :
         (readyState[s] = "OPEN" /\ Num(Head(changeStream).chat) \in subscribedChats[s])
           => OneSent(s, Head(changeStream).seq)]_vars

\* C2: a connection whose subscribedChats is not empty and does not contain
\* chat D is sent no frame of a message of chat D: every message frame it is
\* sent carries a chat_id of its set, and reports a message of a chat of its set.
C2_NoFrameOfAnotherChat ==
  [][DispatchStep =>
       \A s \in Sessions :
         (subscribedChats[s] # {} /\ ~NothingSent(s))
           => /\ Num(Head(changeStream).chat) \in subscribedChats[s]
              /\ sent'[s][Len(sent'[s])].payload.chat_id \in subscribedChats[s]]_vars

\* C2 witness: the insert of a message of chat 42 was dispatched; the connection
\* subscribed to 42 holds its new_message frame and the one subscribed to 99,
\* still open, holds nothing.
C2_Witness ==
  \E s \in clients, r \in clients :
    /\ readyState[s] = "OPEN" /\ readyState[r] = "OPEN"
    /\ subscribedChats[s] = {Num(42)} /\ subscribedChats[r] = {Num(99)}
    /\ Len(sent[s]) = 1
    /\ sent[s][1].type = "new_message" /\ sent[s][1].payload.chat_id = Num(42)
    /\ sent[r] = <<>>
    /\ changeStream = <<>>

\* C3: when the delete of a message is dispatched, every registered open
\* connection that is subscribed to the chat the message belonged to, or whose
\* subscribedChats is empty, is sent a delete_message frame for it.
C3_DeleteReachesSubscribersAndGlobal ==
  [][(DispatchStep /\ Head(changeStream).operationType = "delete") =>
       \A s \in clients :
         (/\ readyState[s] = "OPEN"
          /\ \/ subscribedChats[s] = {}
             \/ Num(Head(changeStream).chat) \in subscribedChats[s])
           => /\ OneSent(s, Head(changeStream).seq)
              /\ sent'[s][Len(sent'[s])].type = "delete_message"
              /\ sent'[s][Len(sent'[s])].payload.id = toString(Head(changeStream).documentKey)]_vars

\* C10: the message frames a connection was sent are in the order of the
\* change feed: an earlier frame reports an earlier event.
C10_FramesInFeedOrder ==
  \A s \in Sessions :
    \A i \in 1..Len(sent[s]), j \in 1..Len(sent[s]) :
      (i < j /\ IsMessageFrame(sent[s][i]) /\ IsMessageFrame(sent[s][j]))
        => sent[s][i].seq < sent[s][j].seq

\* C10 witness: a connection subscribed to a chat was sent two frames of that chat.
C10_Witness ==
  \E s \in Sessions :
    /\ subscribedChats[s] = {Num(42)}
    /\ Len(sent[s]) = 2
    /\ sent[s][1].type = "new_message" /\ sent[s][2].type = "update_message"
    /\ sent[s][1].payload.chat_id = Num(42) /\ sent[s][2].payload.chat_id = Num(42)

\* Connection s is closing, closed or unregistered.
Leaving(s) == readyState[s] \in {"CLOSING", "CLOSED"}

\* C11: when an event is dispatched while another connection is closing, closed
\* or already unregistered, every registered open connection the frame matches
\* (empty subscribedChats, or the chat_id of the frame in it) is still sent
\* that frame in the same dispatch.
C11_OthersStillReceive ==
  [][DispatchStep =>
       LET change == delivered(messages, Head(changeStream))
           frame == wsMessage(change)
       IN \A s \in clients :
            (/\ readyState[s] = "OPEN"
             /\ \/ subscribedChats[s] = {}
                \/ frame.payload.chat_id \in subscribedChats[s]
             /\ \E r \in Sessions \ {s} : Leaving(r))
              => /\ OneSent(s, change.seq)
                 /\ sent'[s][Len(sent'[s])].type = frame.type
                 /\ sent'[s][Len(sent'[s])].payload = frame.payload]_vars

\* C11 witness: the first connection is closing and still registered, it was
\* sent nothing; the second, open, holds a frame.
C11_Witness ==
  /\ 1 \in clients /\ readyState[1] = "CLOSING" /\ sent[1] = <<>>
  /\ subscribedChats[1] = {}
  /\ 2 \in clients /\ readyState[2] = "OPEN" /\ Len(sent[2]) >= 1
  /\ changeStream = <<>>

\* C12: a connection that did not accept a frame (the frame is still queued
\* because its peer does not read) is treated as failed: it is unregistered, or
\* at least sent nothing more, by the time the next event is dispatched.
C12_FailedSessionDropped ==
  [][DispatchStep =>
       \A s \in Sessions : bufferedAmount[s] > 0 => NothingSent(s)]_vars

\* C20: the server shuts down in the order feeds, viewer connections, store:
\* whenever the MongoClient is closed, both change streams and the WebSocket
\* server are closed already and no viewer connection is open.
C20_ShutdownOrder ==
  ~isOpen("mongoClient") =>
    /\ ~isOpen("changeStream") /\ ~isOpen("activatedChatsChangeStream")
    /\ ~isOpen("wss")
    /\ \A s \in Sessions : readyState[s] # "OPEN"

\* C13: whatever 'close' and 'error' events a connection emits, a step that
\* unregisters it removes it alone and changes no subscribedChats; once removed
\* it is never registered again; and a closed connection is not registered.
C13_UnregisteredOnce ==
  [][\A s \in Sessions :
       /\ (s \in clients /\ s \notin clients')
            => (clients' = clients \ {s} /\ subscribedChats' = subscribedChats)
       /\ (s \notin clients /\ readyState[s] # "CONNECTING") => s \notin clients'
       /\ readyState'[s] = "CLOSED" => s \notin clients']_vars

\* C13 witness: one connection is closed and unregistered, the other is still
\* registered, open and subscribed to chat 42.
C13_Witness ==
  \E s \in Sessions, r \in Sessions :
    /\ readyState[s] = "CLOSED" /\ s \notin clients
    /\ r \in clients /\ readyState[r] = "OPEN" /\ subscribedChats[r] = {Num(42)}

\* The frame is a well-formed subscribe or unsubscribe that names a chat.
NamesChat(data) ==
  /\ data.wellFormed
  /\ data.type \in {"subscribe", "unsubscribe"}
  /\ \E c \in ChatIds : data.chatId = Num(c)

\* C14: a subscribe frame adds exactly the named chat to the sender's
\* subscribedChats and an unsubscribe frame removes exactly it; every other
\* frame (not JSON, another type, no chat) changes nothing; and a step that
\* changes one connection's subscribedChats applies one frame to the set the
\* earlier frames left, and changes no other set, nor the registry.
C14_ControlFrameEffect ==
  [][/\ \A s \in Sessions, data \in ControlFrames :
          applyControl(subscribedChats[s], data) =
            IF NamesChat(data) /\ data.type = "subscribe"
            THEN subscribedChats[s] \cup {data.chatId}
            ELSE IF NamesChat(data) /\ data.type = "unsubscribe"
            THEN subscribedChats[s] \ {data.chatId}
            ELSE subscribedChats[s]
     /\ \A s \in Sessions :
          subscribedChats'[s] # subscribedChats[s] =>
            /\ \E data \in ControlFrames :
                 /\ NamesChat(data)
                 /\ subscribedChats'[s] = applyControl(subscribedChats[s], data)
            /\ \A r \in Sessions \ {s} : subscribedChats'[r] = subscribedChats[r]
            /\ clients' = clients /\ readyState' = readyState /\ sent' = sent]_vars

\* C14 witness: two registered open connections; one has subscribed to both
\* chats, the other is still a global listener.
C14_Witness ==
  \E s \in clients, r \in clients :
    /\ readyState[s] = "OPEN" /\ readyState[r] = "OPEN"
    /\ subscribedChats[s] = {Num(42), Num(99)}
    /\ subscribedChats[r] = {}

\* A step of the handler of the activated_chats stream, which takes the first event.
ActivationStep ==
  /\ activatedChatsChangeStream # <<>>
  /\ activatedChatsChangeStream' = Tail(activatedChatsChangeStream)

\* The step in which the suspended handler of `change` resumes and ends.
GroupStep(change) == change \in counting /\ counting' = counting \ {change}

\* Connection s is registered and open, with an empty subscribedChats.
GlobalListener(s) ==
  s \in clients /\ readyState[s] = "OPEN" /\ subscribedChats[s] = {}

\* C4 (as stated): a global listener is sent a frame for every event of either
\* stream, whatever the operation: when the handler of an event ends, every
\* global listener has been sent the frame of that event.
C4_GlobalReceivesEveryEvent ==
  [][\A s \in Sessions : GlobalListener(s) =>
       /\ DispatchStep => OneSent(s, Head(changeStream).seq)
       /\ (ActivationStep /\ Head(activatedChatsChangeStream).operationType # "insert")
            => OneSent(s, Head(activatedChatsChangeStream).seq)
       /\ \A change \in counting : GroupStep(change) => OneSent(s, change.seq)]_vars

\* C4 (amended): a global listener is sent a frame for every insert, update
\* and delete of the messages collection and for every insert of the
\* activated_chats collection; an update or a delete of the activated_chats
\* collection sends nothing to anyone.
C4_GlobalReceivesMessagesAndActivations ==
  [][/\ \A s \in Sessions : GlobalListener(s) =>
          /\ DispatchStep => OneSent(s, Head(changeStream).seq)
          /\ \A change \in counting : GroupStep(change) => OneSent(s, change.seq)
     /\ (ActivationStep /\ Head(activatedChatsChangeStream).operationType # "insert")
          => \A s \in Sessions : NothingSent(s)]_vars

\* C4 witness: a global listener holds a new_group frame and a message frame.
C4_Witness ==
  \E s \in Sessions :
    /\ GlobalListener(s)
    /\ \E i \in 1..Len(sent[s]) : sent[s][i].type = "new_group"
    /\ \E i \in 1..Len(sent[s]) : IsMessageFrame(sent[s][i])

\* C5: when the handler of an activated_chats insert resumes, every registered
\* open connection is sent one new_group frame for the activated chat, whatever
\* its subscribedChats; no connection ever holds two new_group frames of one insert.
C5_NewGroupToEveryOpenConnection ==
  [][/\ \A change \in counting : GroupStep(change) =>
          \A s \in clients : readyState[s] = "OPEN" =>
            /\ OneSent(s, change.seq)
            /\ sent'[s][Len(sent'[s])].type = "new_group"
            /\ \A activated \in change.fullDocument :
                 sent'[s][Len(sent'[s])].payload._id = toString(activated._id)
     /\ \A s \in Sessions : \A i \in 1..Len(sent'[s]), j \in 1..Len(sent'[s]) :
          (i # j /\ sent'[s][i].type = "new_group" /\ sent'[s][j].type = "new_group")
            => sent'[s][i].seq # sent'[s][j].seq]_vars

\* C5 witness: a connection subscribed to chat 99 alone holds the new_group
\* frame of chat 42.
C5_Witness ==
  \E s \in clients :
    /\ subscribedChats[s] = {Num(99)}
    /\ \E i \in 1..Len(sent[s]) :
         sent[s][i].type = "new_group" /\ sent[s][i].payload.chat_id = Num(42)


\* ----------------------------------------------- claims: the synchronizer
\* A step of the change handler of watchAndSync, which takes the first event.
HandlerStep ==
  /\ pc = "watching" /\ pc' = "watching"
  /\ syncStream # <<>> /\ syncStream' = Tail(syncStream)

\* The documents the index holds for every message of the store, each the
\* transform of the message's current state.
InSyncDocs == {doc(m) : m \in messages}

BackfillRunning == pc \in {"loop", "add", "end"}

\* C7: during and after a backfill over a store that does not change, every
\* document the index already held in the current state of its message is
\* still the one document of its identity; when the index already held every
\* message of the store in its current state, the index is unchanged.
C7_BackfillIdempotent ==
  (BackfillRunning /\ quiet) =>
    /\ \A d \in indexAtStart :
         d \in InSyncDocs => {e \in index : e.id = d.id} = {d}
    /\ InSyncDocs \subseteq indexAtStart => index = indexAtStart

\* C7 witness: a second run, a backfill, has ended over an index that already
\* held every message of the store; it wrote at least one batch.
C7_Witness ==
  /\ runs = 2 /\ mode = "full" /\ pc = "end" /\ quiet
  /\ batches >= 1
  /\ indexAtStart # {} /\ InSyncDocs \subseteq indexAtStart
  /\ index = indexAtStart

\* ceil(n / b)
CeilDiv(n, b) == (n + b - 1) \div b

\* C8: a backfill over a store of N records that does not change issues
\* ceil(N / BATCH_SIZE) batches and indexes each of the N records exactly once;
\* an index that was empty ends with N documents.
C8_BackfillIndexesEachOnce ==
  (pc = "end" /\ quiet) =>
    /\ batches = CeilDiv(Cardinality(messages), BATCH_SIZE)
    /\ processed = Cardinality(messages)
    /\ \A n \in MsgIds :
         indexedIn[n] = IF findById(messages, ObjectId(n)) # {} THEN 1 ELSE 0
    /\ indexAtStart = {} => Cardinality(index) = Cardinality(messages)

\* C9: in mode `full --watch` on an empty index, whenever the backfill is over
\* and every queued event is handled, the index holds exactly the transform of
\* every message of the store and nothing else.
C9_IndexEventuallyConsistent ==
  (mode = "full --watch" /\ runs = 1 /\ pc = "watching" /\ syncStream = <<>>)
    => index = InSyncDocs


\* C15: after the change stream of the synchronizer reported an error, the
\* feed does not stay stopped for ever: the process leaves that state, to
\* watch again (or it ends).
C15_FeedReestablished == (pc = "failed") ~> (pc # "failed")

\* C16: a failed transform or upsert is skipped and aborts nothing: while the
\* index store is reachable, the backfill goes on with its loop after every
\* batch, and the incremental process, when it has taken an event off a stream
\* that holds later events, is still watching with those events queued.
C16_WriteErrorSkipped ==
  [][/\ (pc = "add" /\ reachable /\ pc' # "add") => pc' = "loop"
     /\ (pc = "watching" /\ reachable /\ Len(syncStream) >= 2
           /\ syncStream' = Tail(syncStream)) => pc' = "watching"]_vars

\* C17: work that failed because the index store could not be reached is kept
\* and tried again: the backfill does not exit on it, and the incremental
\* handler does not give up the event it could not write.
C17_UnavailableWorkRetried ==
  [][/\ (pc = "add" /\ ~reachable /\ pc' # "add") => pc' # "off"
     /\ (/\ pc = "watching" /\ pc' = "watching" /\ ~reachable
         /\ syncStream # <<>>
         /\ writes(delivered(messages, Head(syncStream))))
          => (syncStream' # <<>> /\ Head(syncStream') = Head(syncStream))]_vars

\* C18: applying to the index the event the handler has just applied, or the
\* batch the backfill has just added, once more leaves the index as it is; and
\* the index never holds two documents with one id.
C18_UpsertIdempotent ==
  [][/\ HandlerStep =>
          applyChange(index', delivered(messages, Head(syncStream))) = index'
     /\ (pc = "add" /\ pc' = "loop") =>
          addDocuments(index', {documents(msg) : msg \in elements(batch)}) = index'
     /\ \A d \in index', e \in index' : d.id = e.id => d = e]_vars

\* C18 witness: after a backfill the process is watching and has handled every
\* event; the index holds the edited state of a message and one document only.
C18_Witness ==
  /\ mode = "full --watch" /\ pc = "watching" /\ syncStream = <<>>
  /\ batches >= 1
  /\ Cardinality(index) = 1
  /\ \E d \in index : d.was_edited = true /\ d \in InSyncDocs

\* The index holds no document with the id of message n.
Absent(n) == \A d \in index : d.id # toString(ObjectId(n))

\* C19: a delete event for an id the index does not hold leaves the index as
\* it is and the process watching, with the later events still queued; the
\* index delete of a DELETE request for such an id leaves the index, the
\* process and its stream as they are.
C19_DeleteOfAbsentIsNoError ==
  [][/\ (/\ HandlerStep
         /\ Head(syncStream).operationType = "delete"
         /\ Absent(Head(syncStream).documentKey[2]))
          => index' = index
     /\ (/\ pc = "watching" /\ Len(syncStream) >= 2
         /\ syncStream' = Tail(syncStream)
         /\ Head(syncStream).operationType = "delete"
         /\ Absent(Head(syncStream).documentKey[2]))
          => pc' = "watching"
     /\ \A n \in deleting :
          (deleting' = deleting \ {n} /\ Absent(n))
            => (index' = index /\ pc' = pc /\ syncStream' = syncStream)]_vars

\* C19 witness: a process started with `watch` has handled every event, the
\* DELETE request is over; the first message, never indexed by this process or
\* removed again, is deleted and the index still holds a later message.
C19_Witness ==
  /\ mode = "watch" /\ runs = 1 /\ pc = "watching" /\ syncStream = <<>>
  /\ deleting = {}
  /\ findById(messages, ObjectId(1)) = {} /\ committed >= 2
  /\ index # {} /\ index = InSyncDocs

\* The payload of frame f names the message (or the chat) it is about and its chat.
CompletePayload(f) ==
  /\ f.payload.chat_id # undefined
  /\ IF f.type = "delete_message" THEN f.payload.id # undefined
                                  ELSE f.payload._id # undefined

\* C21: every frame sent to a viewer has one of the four types and a complete
\* payload: the identity and the chat_id of the message (or of the activated
\* chat) are in it.
C21_PayloadComplete ==
  \A s \in Sessions : \A i \in 1..Len(sent[s]) :
    /\ sent[s][i].type \in {"new_message", "update_message", "delete_message",
                            "new_group"}
    /\ CompletePayload(sent[s][i])

\* The step is the index call of a DELETE request.
RestStep == deleting' # deleting /\ deleting' \subseteq deleting

C23_ServerSetEqualsClientSet ==
  (wsRef # 0 /\ wsRef \in clients /\ readyState[wsRef] = "OPEN")
    => subscribedChats[wsRef] = {Num(reg[1]) : reg \in subscribersRef}

\* C30: when the provider handles the delete_message frame of a message that
\* is a row of the open MessagesPage, the row is removed.
C30_DeleteReachesPage ==
  [][(wsRef # 0 /\ rcvd < Len(sent[wsRef]) /\ rcvd' = rcvd + 1) =>
       LET frame == sent[wsRef][rcvd + 1]
       IN (frame.type = "delete_message" /\ frame.payload.id \in elements(pageMessages))
            => frame.payload.id \notin elements(pageMessages')]_vars

\* C24: the new_group frames a connection was sent are in the order in which
\* the activations were committed: an earlier frame reports an earlier insert.
C24_GroupFramesInFeedOrder ==
  \A s \in Sessions :
    \A i \in 1..Len(sent[s]), j \in 1..Len(sent[s]) :
      (i < j /\ sent[s][i].type = "new_group" /\ sent[s][j].type = "new_group")
        => sent[s][i].seq < sent[s][j].seq

\* C25: when the index request of an event takes effect, no request of an
\* earlier event on the same message is still on its way: the mutations of one
\* identity take effect in the order of their events.
C25_MutationsInFeedOrder ==
  [][\A change \in inflight :
       (inflight' = inflight \ {change}) =>
         ~ \E earlier \in inflight :
             /\ earlier.documentKey = change.documentKey
             /\ earlier.seq < change.seq]_vars

\* C26: the upsert of a backfill batch never replaces an index document that
\* is the transform of the current store state of its message: what the index
\* holds for an identity both the backfill and the incremental handler
\* processed is never older than the store.
C26_UpsertNeverOlder ==
  [][(pc = "add" /\ pc' = "loop") =>
       \A m \in messages : doc(m) \in index => doc(m) \in index']_vars

\* C27: when a backfill is over, the store not having changed during the run,
\* no index delete of the REST API pending and every record of the store read
\* by the run, the identities of the index are the identities of the store,
\* whatever the index held before the run.
C27_BackfillRederivesIndex ==
  (/\ pc = "end" /\ quiet /\ deleting = {}
   /\ \A n \in MsgIds : findById(messages, ObjectId(n)) # {} => indexedIn[n] >= 1)
    => {d.id : d \in index} = {toString(m._id) : m \in messages}

\* C28: every iteration of the batch loop handles a batch of at most
\* BATCH_SIZE records and moves skip forward, so that the loop ends after
\* finitely many iterations, whatever the configured SYNC_BATCH_SIZE.
C28_BoundedBatchesAdvance ==
  [][(pc = "add" /\ pc' = "loop") =>
       /\ Len(batch) <= BATCH_SIZE
       /\ skip' > skip]_vars

\* The frame {type: 'unsubscribe', chatId: c}.
Unsubscribe(c) == [wellFormed |-> TRUE, type |-> "unsubscribe", chatId |-> Num(c)]

\* C29: subscribedChats is all the filter looks at. Unsubscribing from the one
\* chat a connection has subscribed to leaves the empty set; whenever a message
\* event is dispatched, every registered open connection whose set is empty is
\* sent its frame, whatever the chat and whatever the connection had subscribed
\* to before; and two registered open connections with the same set are sent
\* the same.
C29_EmptySetIsGlobal ==
  [][/\ \A s \in clients, c \in ChatIds :
          subscribedChats[s] = {Num(c)} =>
            applyControl(subscribedChats[s], Unsubscribe(c)) = {}
     /\ DispatchStep =>
          /\ \A s \in clients :
               (readyState[s] = "OPEN" /\ subscribedChats[s] = {})
                 => OneSent(s, Head(changeStream).seq)
          /\ \A s \in clients, r \in clients :
               (/\ readyState[s] = "OPEN" /\ readyState[r] = "OPEN"
                /\ subscribedChats[s] = subscribedChats[r])
                 => (NothingSent(s) <=> NothingSent(r))]_vars

\* C29 witness: of two events of chat 99, a connection that is registered and
\* open with an empty subscribedChats was sent the second and not the first,
\* which a connection subscribed to chat 99 was sent: it was subscribed to
\* another chat, or not yet connected, at the first, and is a global listener
\* at the second.
C29_Witness ==
  \E s \in clients, r \in clients :
    /\ readyState[s] = "OPEN" /\ readyState[r] = "OPEN"
    /\ subscribedChats[s] = {} /\ subscribedChats[r] = {Num(99)}
    /\ Len(sent[r]) = 2 /\ Len(sent[s]) = 1
    /\ sent[r][1].seq = 1 /\ sent[r][2].seq = 2 /\ sent[s][1].seq = 2
    /\ sent[r][1].payload.chat_id = Num(99) /\ sent[s][1].payload.chat_id = Num(99)

\* C31: a frame is only ever sent to a connection that is registered and OPEN
\* at the moment of the broadcast loop: never to a connection that is closing
\* or closed, and never to one that 'close' or 'error' removed from the
\* registry before.
C31_SentOnlyToOpenRegistered ==
  [][\A s \in Sessions :
       sent'[s] # sent[s] => (s \in clients /\ readyState[s] = "OPEN")]_vars

\* C31 witness: a connection that was sent the first event and was then closed
\* and removed holds that frame alone, while an open connection was sent the
\* second event too.
C31_Witness ==
  \E s \in Sessions, r \in clients :
    /\ s \notin clients /\ readyState[s] = "CLOSED"
    /\ Len(sent[s]) = 1 /\ sent[s][1].seq = 1
    /\ readyState[r] = "OPEN"
    /\ Len(sent[r]) = 2 /\ sent[r][1].seq = 1 /\ sent[r][2].seq = 2

\* The fields of an index document.
IndexFields ==
  {"id", "_id", "message_id", "chat_id", "date", "from_user", "text", "caption",
   "logged_at", "was_edited"}

\* C32: of every record of the store the backfill and the change handler make
\* the same index document, field by field: the ten fields, id and _id the
\* string of the ObjectId, the dates as ISO strings when they are Dates,
\* was_edited false when it is missing or falsy.
C32_SameTransform ==
  \A m \in messages :
    /\ DOMAIN documents(m) = IndexFields /\ DOMAIN doc(m) = IndexFields
    /\ \A f \in IndexFields : documents(m)[f] = doc(m)[f]
    /\ doc(m).was_edited = IF Truthy(m.was_edited) THEN m.was_edited ELSE false

\* C32 witness: in a first run in `watch` mode (no backfill has written) the
\* index holds the document the handler made of an edited record stored with a
\* Date, and it is the document the backfill makes of that record.
C32_Witness ==
  /\ runs = 1 /\ mode = "watch" /\ pc = "watching" /\ syncStream = <<>>
  /\ \E m \in messages :
       /\ m.date = DateOf(1) /\ m.was_edited = true
       /\ index = {documents(m)}

\* C37: the rows of the open MessagesPage never hold one message twice.
C37_RowsUnique ==
  \A i \in DOMAIN pageMessages, j \in DOMAIN pageMessages :
    i # j => pageMessages[i] # pageMessages[j]

\* The provider handles the next frame of its connection.
OnmessageStep == wsRef # 0 /\ rcvd < Len(sent[wsRef]) /\ rcvd' = rcvd + 1

\* What the routing owes the callback registered as reg for a frame: a
\* new_group frame is for the callbacks of key -1 alone; any other frame is for
\* the callbacks of its chat and for those of key -1.
Owed(frame, reg) ==
  IF frame.type = "new_group" THEN reg[1] = GlobalKey
  ELSE \/ reg[1] = GlobalKey
       \/ (frame.payload.chat_id # undefined /\ frame.payload.chat_id = Num(reg[1]))

\* C36 (as stated): for every frame the provider handles, a registered
\* callback is called once when the frame is for it and not at all when it is
\* not, whatever the chat_id of the frame.
C36_RoutedExactlyOnce ==
  [][OnmessageStep =>
       \A reg \in subscribersRef :
         invocations(sent[wsRef][rcvd + 1], reg) =
           IF Owed(sent[wsRef][rcvd + 1], reg) THEN 1 ELSE 0]_vars

\* C36 (amended): the same for every frame whose chat_id is not the number -1;
\* a frame of chat -1 calls the callbacks of key -1 twice. The rows of the
\* page change as its callback is called: once when the frame is for it, and
\* never when the page has unsubscribed.
C36_RoutedOnceButGlobalKey ==
  [][OnmessageStep =>
       LET frame == sent[wsRef][rcvd + 1]
       IN /\ \A reg \in subscribersRef :
               invocations(frame, reg) =
                 IF ~Owed(frame, reg) THEN 0
                 ELSE IF frame.type # "new_group" /\ reg[1] = GlobalKey
                         /\ frame.payload.chat_id = Num(GlobalKey)
                 THEN 2 ELSE 1
          /\ pageRegs = {} => pageMessages' = pageMessages
          /\ \A reg \in pageRegs :
               /\ ~Owed(frame, reg) => pageMessages' = pageMessages
               /\ (Owed(frame, reg) /\ frame.payload.chat_id # Num(GlobalKey))
                    => pageMessages' = pageCallback(pageMessages, frame)]_vars

\* C36 witness: with the page of chat 42 and the groups page open, the provider
\* has handled the new_group frame of chat 42 and then the new_message frame
\* of chat 42; the page holds the one row.
C36_Witness ==
  /\ subscribersRef = {<<42, "page">>, <<GlobalKey, "groups">>}
  /\ wsRef # 0 /\ rcvd = 2 /\ Len(sent[wsRef]) = 2
  /\ sent[wsRef][1].type = "new_group" /\ sent[wsRef][1].payload.chat_id = Num(42)
  /\ sent[wsRef][2].type = "new_message" /\ sent[wsRef][2].payload.chat_id = Num(42)
  /\ pageMessages = <<sent[wsRef][2].payload._id>>

\* The WebSockets of the provider that are connecting or open.
Live == {w \in DOMAIN sockets : sockets[w] \in {"CONNECTING", "OPEN"}}

\* C33: the provider has at most one WebSocket that is connecting or open.
C33_OneLiveSocket == Cardinality(Live) <= 1

\* C35: while the provider is unmounted, from its cleanup on, no reconnect
\* timeout is pending and no WebSocket is created.
C35_NothingAfterCleanup ==
  [][~mounted' =>
       /\ timers' = {}
       /\ ~mounted => Len(sockets') = Len(sockets)]_vars

\* C34: the close of a connection of the mounted provider sets the reconnect
\* timeout; a socket that opens makes isConnected true; and after every close,
\* unless the provider is unmounted, a further WebSocket is created: attempts
\* go on, close after close.
C34_ReconnectsAfterClose ==
  /\ [][\A w \in DOMAIN sockets :
          /\ (sockets[w] # "CLOSED" /\ sockets'[w] = "CLOSED") => w \in timers'
          /\ (sockets[w] = "CONNECTING" /\ sockets'[w] = "OPEN") => isConnected']_vars
  /\ \A w \in 1..(MaxSockets - 1) :
       (mounted /\ w \in DOMAIN sockets /\ sockets[w] = "CLOSED")
         ~> (Len(sockets) > w \/ ~mounted)

\* C34 witness: the provider, never unmounted since its timeouts were set, is
\* connected by its third WebSocket after the first two were closed.
C34_Witness ==
  /\ mounted /\ isConnected
  /\ sockets = <<"CLOSED", "CLOSED", "OPEN">>
  /\ wsRef = 3 /\ reconnectTimeoutRef = 2 /\ timers = {}

====
